---------------------------- MODULE Spec2Model ----------------------------
(***************************************************************************)
(* A model of the metadata resolution engine of graphmodel: GraphObject    *)
(* (categories, property values, owner, copy/merge) and GraphSchema        *)
(* (tree lookup), from src/src/graphSchema.ts.                             *)
(***************************************************************************)
EXTENDS Integers, Sequences, FiniteSets, TLC

(***************************************************************************)
(* Bounds of the model.                                                    *)
(***************************************************************************)
MaxVal == 2
MaxCats == 2
MaxDefs == 3
MaxSubs == 2
MaxMembers == 2

(***************************************************************************)
(* The universe: the graph object O the methods are called on and the      *)
(* object S it is copied from, two graphs, two properties, three           *)
(* categories (A basedOn B; C stands alone).                               *)
(***************************************************************************)
Objects == {"O", "S"}
Receivers == {"O"}
Graphs == {"G1", "G2"}
NoOwner == "noOwner"
Owners == Graphs \cup {NoOwner}
Properties == {"P1", "P2"}
Categories == {"A", "B", "C"}
NoCategory == "noCategory"
\* The unset sentinel (undefined), outside the values and the defaults.
Undef == -1
Values == 1..MaxVal
None == "-"

\* GraphCategory.basedOn: the single parent of a category.
basedOn == [c \in Categories |-> IF c = "A" THEN "B" ELSE NoCategory]

\* GraphProperty.id: two distinct property instances may share one id.
PropertyId == [P \in Properties |-> "p"]

(***************************************************************************)
(* Per-owner metadata of the properties (GraphMetadataContainer /          *)
(* GraphMetadata): one record per (property, owner), and the ownerless     *)
(* record createDefaultMetadata() gives.  rejects is the set of values the *)
(* validator refuses.                                                      *)
(***************************************************************************)
Meta(d, imm, rem, sh, rej) ==
    [defaultValue |-> d, isImmutable |-> imm, isRemovable |-> rem,
     isSharable |-> sh, canValidate |-> rej # {}, rejects |-> rej]

PropertyMetadata ==
    [P \in Properties |-> [g \in Owners |->
        CASE P = "P1" /\ g = NoOwner -> Meta(0, FALSE, TRUE, TRUE, {})
          [] P = "P1" /\ g = "G1" -> Meta(10, TRUE, FALSE, TRUE, {})
          [] P = "P1" /\ g = "G2" -> Meta(Undef, TRUE, TRUE, TRUE, {})
          [] P = "P2" /\ g = NoOwner -> Meta(20, TRUE, TRUE, TRUE, {1})
          [] P = "P2" /\ g = "G1" -> Meta(21, FALSE, TRUE, FALSE, {2})
          [] P = "P2" /\ g = "G2" -> Meta(22, FALSE, FALSE, TRUE, {1})]]

\* GraphMetadataContainer.getMetadata(owner)
getMetadata(P, g) == PropertyMetadata[P][g]

\* GraphMetadataContainer.createDefaultMetadata()
createDefaultMetadata(P) == PropertyMetadata[P][NoOwner]

\* GraphMetadata.validate(value)
validate(md, v) == v \notin md.rejects

\* Graph._importMetadata(sourceGraph, property): the destination graph's own
\* metadata entry for the property.
importMetadata(g, srcOwner, P) == getMetadata(P, g)

(***************************************************************************)
(* Per-owner metadata of the categories: the value the metadata holds for  *)
(* each property it owns (Undef: the metadata does not own the property).  *)
(***************************************************************************)
CategoryMetadata ==
    [c \in Categories |-> [g \in Graphs |-> [P \in Properties |->
        CASE g = "G1" /\ c = "B" /\ P = "P1" -> 7
          [] g = "G1" /\ c = "C" /\ P = "P1" -> 8
          [] g = "G1" /\ c = "C" /\ P = "P2" -> 9
          [] g = "G2" /\ c = "A" /\ P = "P1" -> 7
          [] g = "G2" /\ c = "B" /\ P = "P1" -> 8
          [] OTHER -> Undef]]]

\* category.getMetadata(owner).hasOwn(property)
metadataHasOwn(c, g, P) == CategoryMetadata[c][g][P] # Undef

\* category.getMetadata(owner).get(property)
metadataGet(c, g, P) == CategoryMetadata[c][g][P]

(***************************************************************************)
(* The state: the fields of every GraphObject, and a record of the last    *)
(* call (its arguments, its result and the events it raised).              *)
(***************************************************************************)
VARIABLES owner, categories, properties, last

(***************************************************************************)
(* The state of the schema tree: the child schemas of every GraphSchema in *)
(* registration order, the schemas whose category (property) collection    *)
(* holds the id looked up, and a record of the last schema call.           *)
(***************************************************************************)
VARIABLES schemas, categoryDefs, propertyDefs, lastSchema

(***************************************************************************)
(* The observers: every subscription created so far, by handle (the entity *)
(* it was made on and what its handlers do), the _observers map of every   *)
(* entity (the handles in it, in insertion order), and the handler         *)
(* invocations of the last call, in order.                                 *)
(***************************************************************************)
VARIABLES subscriptions, observers, deliveries

objectVars == <<owner, categories, properties, last>>
schemaVars == <<schemas, categoryDefs, propertyDefs, lastSchema>>
observerVars == <<subscriptions, observers, deliveries>>
vars == <<owner, categories, properties, last,
          schemas, categoryDefs, propertyDefs, lastSchema,
          subscriptions, observers, deliveries>>

\* A Map<GraphProperty, any> in insertion order: a sequence of <<key, value>>.
\* The mutant of sameKey: two properties with the same id are the same key.
sameKeyById(P, Q) == PropertyId[P] = PropertyId[Q]

\* The key comparison of the Map: the same GraphProperty instance.
sameKey(P, Q) == P = Q

MapKeys(m) == {m[i][1] : i \in DOMAIN m}
MapHas(m, P) == \E i \in DOMAIN m : sameKey(m[i][1], P)
MapIndex(m, P) == CHOOSE i \in DOMAIN m : sameKey(m[i][1], P)
MapGet(m, P) == IF MapHas(m, P) THEN m[MapIndex(m, P)][2] ELSE Undef
MapSet(m, P, v) ==
    IF MapHas(m, P) THEN [m EXCEPT ![MapIndex(m, P)] = <<P, v>>]
    ELSE Append(m, <<P, v>>)
MapDelete(m, P) == SelectSeq(m, LAMBDA e : ~sameKey(e[1], P))

\* A Set<GraphCategory> in insertion order: a sequence without repetition.
SetHas(s, c) == \E i \in DOMAIN s : s[i] = c
SetAdd(s, c) == IF SetHas(s, c) THEN s ELSE Append(s, c)
SetDelete(s, c) == SelectSeq(s, LAMBDA e : e # c)
SetOf(s) == {s[i] : i \in DOMAIN s}

PropertyEvent(P) == [kind |-> "property", property |-> P, id |-> PropertyId[P]]
CategoryEvent(change, c) == [kind |-> "category", change |-> change, category |-> c]

\* No loop over a category chain is under way.
NoWalk == [running |-> FALSE]

\* The record of a call: ret is a boolean result, result a value result,
\* returns a result that is a category or one of "true", "false",
\* "undefined"; id is a category id argument.  catSet and mode are the
\* arguments of hasCategoryInSet, handle
\* the subscription of subscribe and unsubscribe; hadOwn and prior tell
\* whether a value was stored and what get gave before a set, and after is
\* "set" for a delete that directly follows a set of a value to the same
\* property (it then carries that set's hadOwn and prior), and the name of
\* the copy for a copy that directly follows the same copy from the same
\* object when that one changed something; trace lists the steps
\* copyCategories took; walk is where the loops of a call that is stepped
\* through have got to.
Call(op, o, P, v, c, other, g, ret, result, events) ==
    [op |-> op, obj |-> o, property |-> P, value |-> v, category |-> c,
     other |-> other, graph |-> g, ret |-> ret, result |-> result,
     events |-> events, returns |-> None, catSet |-> {}, mode |-> None,
     handle |-> 0, id |-> None, hadOwn |-> FALSE, prior |-> Undef, after |-> None,
     trace |-> <<>>, walk |-> NoWalk]

(***************************************************************************)
(* GraphObject: the pure part of each method, computed as the code does.   *)
(***************************************************************************)
\* The mutant of walkChain: only the category itself is asked, never its
\* basedOn chain.
walkChainSelfOnly(c, g, P) ==
    IF c # NoCategory /\ metadataHasOwn(c, g, P) THEN c ELSE NoCategory

RECURSIVE walkChain(_, _, _)
\* The inner while loop of _find: the first category of c's basedOn chain
\* whose metadata for g owns P.
walkChain(c, g, P) ==
    IF c = NoCategory THEN NoCategory
    ELSE IF metadataHasOwn(c, g, P) THEN c
    ELSE walkChain(basedOn[c], g, P)

RECURSIVE findFrom(_, _, _, _)
\* The outer for loop of _find, from the i-th category of the set on.
findFrom(cats, i, g, P) ==
    IF i > Len(cats) THEN NoCategory
    ELSE LET r == walkChain(cats[i], g, P)
         IN  IF r # NoCategory THEN r ELSE findFrom(cats, i + 1, g, P)

\* GraphObject._find: the category whose metadata is returned.
find(cats, g, P) ==
    IF g # NoOwner THEN findFrom(cats, 1, g, P) ELSE NoCategory

\* GraphObject.get
get(props, cats, g, P) ==
    LET own == MapGet(props, P)
        found == find(cats, g, P)
        value == IF own # Undef THEN own
                 ELSE IF found # NoCategory THEN metadataGet(found, g, P)
                 ELSE Undef
    IN  IF value = Undef /\ g # NoOwner
        THEN getMetadata(P, g).defaultValue
        ELSE value

\* The metadata set and delete resolve for a property.
resolveMetadata(g, P) ==
    IF g # NoOwner THEN getMetadata(P, g) ELSE createDefaultMetadata(P)

\* The mutant of notRemovable: delete ignores the removable flag.
notRemovableIgnored(md) == FALSE

\* delete's guard on the metadata: !metadata.isRemovable
notRemovable(md) == ~md.isRemovable

\* The mutant of delete: the entry is reported removed but stays in the map.
deleteKeepsEntry(props, g, P) ==
    IF ~MapHas(props, P)
    THEN [props |-> props, events |-> <<>>, ret |-> FALSE]
    ELSE [props |-> props, events |-> <<PropertyEvent(P)>>, ret |-> TRUE]

\* GraphObject.delete
delete(props, g, P) ==
    IF ~MapHas(props, P)
    THEN [props |-> props, events |-> <<>>, ret |-> FALSE]
    ELSE IF notRemovable(resolveMetadata(g, P))
    THEN [props |-> props, events |-> <<>>, ret |-> FALSE]
    ELSE [props |-> MapDelete(props, P), events |-> <<PropertyEvent(P)>>,
          ret |-> TRUE]

\* The mutant of immutableBlocks: set ignores the immutable flag.
immutableIgnored(md, ownValue) == FALSE

\* set's guard: ownValue !== undefined && metadata.isImmutable
immutableBlocks(md, ownValue) == ownValue # Undef /\ md.isImmutable

\* The mutant of validatorBlocks: set never asks the validator.
validatorIgnored(md, v) == FALSE

\* set's guard: metadata.canValidate && !metadata.validate(value)
validatorBlocks(md, v) == md.canValidate /\ ~validate(md, v)

\* The mutant of set: set(P, undefined) removes the entry without asking
\* whether the property is removable.
setUnsetsUnguarded(props, g, P, v) ==
    IF v = Undef
    THEN IF MapHas(props, P)
         THEN [props |-> MapDelete(props, P), events |-> <<PropertyEvent(P)>>,
               ret |-> FALSE]
         ELSE [props |-> props, events |-> <<>>, ret |-> FALSE]
    ELSE LET ownValue == MapGet(props, P)
             md == resolveMetadata(g, P)
         IN  IF v = ownValue
             THEN [props |-> props, events |-> <<>>, ret |-> FALSE]
             ELSE IF immutableBlocks(md, ownValue)
             THEN [props |-> props, events |-> <<>>, ret |-> FALSE]
             ELSE IF validatorBlocks(md, v)
             THEN [props |-> props, events |-> <<>>, ret |-> FALSE]
             ELSE [props |-> MapSet(props, P, v),
                   events |-> <<PropertyEvent(P)>>, ret |-> FALSE]

\* The mutant of set: the unset sentinel is stored like any other value.
setStoresUndefined(props, g, P, v) ==
    LET ownValue == MapGet(props, P)
        md == resolveMetadata(g, P)
    IN  IF v = ownValue
        THEN [props |-> props, events |-> <<>>, ret |-> FALSE]
        ELSE IF immutableBlocks(md, ownValue)
        THEN [props |-> props, events |-> <<>>, ret |-> FALSE]
        ELSE IF validatorBlocks(md, v)
        THEN [props |-> props, events |-> <<>>, ret |-> FALSE]
        ELSE [props |-> MapSet(props, P, v),
              events |-> <<PropertyEvent(P)>>, ret |-> FALSE]

\* GraphObject.set
set(props, g, P, v) ==
    IF v = Undef
    THEN [delete(props, g, P) EXCEPT !.ret = FALSE]
    ELSE LET ownValue == MapGet(props, P)
             md == resolveMetadata(g, P)
         IN  IF v = ownValue
             THEN [props |-> props, events |-> <<>>, ret |-> FALSE]
             ELSE IF immutableBlocks(md, ownValue)
             THEN [props |-> props, events |-> <<>>, ret |-> FALSE]
             ELSE IF validatorBlocks(md, v)
             THEN [props |-> props, events |-> <<>>, ret |-> FALSE]
             ELSE [props |-> MapSet(props, P, v),
                   events |-> <<PropertyEvent(P)>>, ret |-> FALSE]

\* The mutant of addCategory: the event is raised for a category already
\* present too.
addCategoryAlwaysRaises(cats, c) ==
    [cats |-> SetAdd(cats, c), events |-> <<CategoryEvent("add", c)>>]

\* GraphObject.addCategory
addCategory(cats, c) ==
    IF ~SetHas(cats, c)
    THEN [cats |-> SetAdd(cats, c), events |-> <<CategoryEvent("add", c)>>]
    ELSE [cats |-> cats, events |-> <<>>]

\* GraphObject.deleteCategory, called with a category instance
deleteCategory(cats, c) ==
    IF SetHas(cats, c)
    THEN [cats |-> SetDelete(cats, c),
          events |-> <<CategoryEvent("delete", c)>>, ret |-> TRUE]
    ELSE [cats |-> cats, events |-> <<>>, ret |-> FALSE]

Step(what, c) == [step |-> what, category |-> c]

\* The mutant of copyCategorySteps: the category is added before the owner
\* is asked to import its metadata.
copyCategoryStepsAddFirst(g, c) ==
    <<Step("add", c)>>
    \o (IF g # NoOwner THEN <<Step("import", c)>> ELSE <<>>)
    \o <<Step("raise", c)>>

\* What copyCategories does for a category this object lacks, in order:
\* this._owner?._importMetadata(other._owner, category), then
\* this._categories.add(category), then _raiseOnCategoryChanged("add", ...).
copyCategorySteps(g, c) ==
    (IF g # NoOwner THEN <<Step("import", c)>> ELSE <<>>)
    \o <<Step("add", c), Step("raise", c)>>

RECURSIVE copyCategoriesFrom(_, _, _, _)
\* The loop of copyCategories over other's categories, from the i-th on;
\* acc is [cats, events, ret, trace].
copyCategoriesFrom(src, i, g, acc) ==
    IF i > Len(src) THEN acc
    ELSE IF ~SetHas(acc.cats, src[i])
    THEN copyCategoriesFrom(src, i + 1, g,
            [cats |-> SetAdd(acc.cats, src[i]),
             events |-> Append(acc.events, CategoryEvent("add", src[i])),
             ret |-> TRUE,
             trace |-> acc.trace \o copyCategorySteps(g, src[i])])
    ELSE copyCategoriesFrom(src, i + 1, g, acc)

\* GraphObject.copyCategories
copyCategories(cats, src, g) ==
    IF Len(src) = 0
    THEN [cats |-> cats, events |-> <<>>, ret |-> FALSE, trace |-> <<>>]
    ELSE copyCategoriesFrom(src, 1, g,
            [cats |-> cats, events |-> <<>>, ret |-> FALSE, trace |-> <<>>])

\* The mutant of copies: a pair equal to the stored one is copied again.
copiesWhenEqual(props, g, srcOwner, P, v) ==
    LET ownValue == MapGet(props, P)
    IN  IF g = NoOwner THEN TRUE
        ELSE LET md == importMetadata(g, srcOwner, P)
             IN  IF ~md.isSharable THEN FALSE
                 ELSE IF md.isImmutable /\ ownValue # Undef THEN FALSE
                 ELSE IF md.canValidate /\ ~validate(md, v) THEN FALSE
                 ELSE TRUE

\* The mutant of copies: the immutable flag is not looked at.
copiesOverImmutable(props, g, srcOwner, P, v) ==
    LET ownValue == MapGet(props, P)
    IN  IF ownValue = v THEN FALSE
        ELSE IF g = NoOwner THEN TRUE
        ELSE LET md == importMetadata(g, srcOwner, P)
             IN  IF ~md.isSharable THEN FALSE
                 ELSE IF md.canValidate /\ ~validate(md, v) THEN FALSE
                 ELSE TRUE

\* The guards of one iteration of copyProperties: TRUE when the pair is copied.
copies(props, g, srcOwner, P, v) ==
    LET ownValue == MapGet(props, P)
    IN  IF ownValue = v THEN FALSE
        ELSE IF g = NoOwner THEN TRUE
        ELSE LET md == importMetadata(g, srcOwner, P)
             IN  IF ~md.isSharable THEN FALSE
                 ELSE IF md.isImmutable /\ ownValue # Undef THEN FALSE
                 ELSE IF md.canValidate /\ ~validate(md, v) THEN FALSE
                 ELSE TRUE

RECURSIVE copyPropertiesFrom(_, _, _, _, _)
\* The loop of copyProperties over other's entries, from the i-th on;
\* acc is [props, events, ret].
copyPropertiesFrom(src, i, g, srcOwner, acc) ==
    IF i > Len(src) THEN acc
    ELSE IF copies(acc.props, g, srcOwner, src[i][1], src[i][2])
    THEN copyPropertiesFrom(src, i + 1, g, srcOwner,
            [props |-> MapSet(acc.props, src[i][1], src[i][2]),
             events |-> Append(acc.events, PropertyEvent(src[i][1])),
             ret |-> TRUE])
    ELSE copyPropertiesFrom(src, i + 1, g, srcOwner, acc)

\* The mutant of copyProperties: changed is set for every entry looked at.
copyPropertiesAlwaysChanged(props, g, src, srcOwner) ==
    IF Len(src) = 0
    THEN [props |-> props, events |-> <<>>, ret |-> FALSE]
    ELSE [copyPropertiesFrom(src, 1, g, srcOwner,
            [props |-> props, events |-> <<>>, ret |-> FALSE])
          EXCEPT !.ret = TRUE]

\* GraphObject.copyProperties
copyProperties(props, g, src, srcOwner) ==
    IF Len(src) = 0
    THEN [props |-> props, events |-> <<>>, ret |-> FALSE]
    ELSE copyPropertiesFrom(src, 1, g, srcOwner,
            [props |-> props, events |-> <<>>, ret |-> FALSE])

\* The mutant of setOwner: the owner is overwritten.
setOwnerOverwrites(current, g) == IF g # NoOwner THEN g ELSE current

\* GraphObject._setOwner
setOwner(current, g) ==
    IF g # NoOwner /\ current = NoOwner THEN g ELSE current

(***************************************************************************)
(* GraphSchema: four schemas, and one category id and one property id      *)
(* that any of them may define.                                            *)
(***************************************************************************)
Schemas == {"R", "S1", "S2", "S3"}
NotFound == "notFound"

\* The child schemas of the schemas of a sequence, as a set.
ChildrenOf(sc) == {schemas[sc][i] : i \in DOMAIN schemas[sc]}

RECURSIVE allSchemasOf(_)
\* The for loop of allSchemas over the child schemas: each child's
\* allSchemas(), one after the other.
allSchemasOf(list) ==
    IF list = <<>> THEN <<>>
    ELSE <<Head(list)>> \o allSchemasOf(schemas[Head(list)])
           \o allSchemasOf(Tail(list))

\* The mutant of allSchemas: the schema itself comes after its descendants.
allSchemasSelfLast(sc) == allSchemasOf(schemas[sc]) \o <<sc>>

\* GraphSchema.allSchemas: this schema, then each child's allSchemas().
allSchemas(sc) == <<sc>> \o allSchemasOf(schemas[sc])

RECURSIVE firstDefining(_, _, _)
\* The loop of findCategory and findProperty over allSchemas(): the first
\* schema whose collection holds the id.
firstDefining(list, i, defs) ==
    IF i > Len(list) THEN NotFound
    ELSE IF list[i] \in defs THEN list[i]
    ELSE firstDefining(list, i + 1, defs)

\* GraphSchema.findCategory: the schema whose category is returned.
findCategory(sc) == firstDefining(allSchemas(sc), 1, categoryDefs)

\* GraphSchema.findProperty: the schema whose property is returned.
findProperty(sc) == firstDefining(allSchemas(sc), 1, propertyDefs)

\* The schemas that have a parent.
HasParent(sc) == \E p \in Schemas : sc \in ChildrenOf(p)

RECURSIVE Descendants(_)
\* The descendants of a schema.
Descendants(sc) ==
    ChildrenOf(sc) \cup UNION {Descendants(ch) : ch \in ChildrenOf(sc)}

(***************************************************************************)
(* Categories by id.  Every category has an id; "z" is the id of no        *)
(* category.  The schema of graph G1 knows every category, the schema of   *)
(* G2 does not know A, and an object without owner has no schema.          *)
(***************************************************************************)
CategoryId == [c \in Categories |-> CASE c = "A" -> "a" [] c = "B" -> "b" [] c = "C" -> "c"]
CategoryIds == {"a", "b", "c", "z"}

\* this.schema?.findCategory(id): the category, or NoCategory for undefined.
schemaFindCategory(g, id) ==
    IF g = NoOwner THEN NoCategory
    ELSE IF \E c \in Categories : CategoryId[c] = id /\ ~(g = "G2" /\ c = "A")
    THEN CHOOSE c \in Categories : CategoryId[c] = id
    ELSE NoCategory

\* GraphObject.deleteCategory, called with a category id.  returns is the
\* removed category, "false" or "undefined".
deleteCategoryById(cats, g, id) ==
    LET categoryObj == schemaFindCategory(g, id)
    IN  IF categoryObj = NoCategory
        THEN [cats |-> cats, events |-> <<>>, returns |-> "undefined"]
        ELSE LET r == deleteCategory(cats, categoryObj)
             IN  [cats |-> r.cats, events |-> r.events,
                  returns |-> IF r.ret THEN categoryObj ELSE "false"]

RECURSIVE withBases(_)
\* A category and the categories of its basedOn chain.
withBases(c) == IF c = NoCategory THEN {} ELSE {c} \cup withBases(basedOn[c])

\* The set hasCategoryInSet builds for "inherited": each member, an id
\* first resolved in the object's schema, with its basedOn chain.  A member
\* that is an id the schema does not resolve adds nothing.
inheritedSet(g, members) ==
    UNION { withBases(IF m \in CategoryIds THEN schemaFindCategory(g, m) ELSE m) :
              m \in members }

\* The mutant of usedSet: the expanded set is added to the given one.
usedSetKeepsGiven(g, members, match) ==
    IF match = "inherited" THEN members \cup inheritedSet(g, members) ELSE members

\* The set the object's categories are tested against: the expanded set
\* replaces the given one when it was created at all.
usedSet(g, members, match) ==
    IF match = "inherited" /\ inheritedSet(g, members) # {}
    THEN inheritedSet(g, members)
    ELSE members

\* GraphObject.hasCategoryInSet
hasCategoryInSet(cats, g, members, match) ==
    \E i \in DOMAIN cats : \E c \in withBases(cats[i]) :
        c \in usedSet(g, members, match) \/ CategoryId[c] \in usedSet(g, members, match)

(***************************************************************************)
(* Subscriptions and event dispatch, of GraphObject and of GraphSchema.    *)
(* A handler is plain, or subscribes a new plain subscription to the same  *)
(* entity, or unsubscribes the subscription made right after its own.      *)
(***************************************************************************)
Entities == Objects \cup Schemas
HandlerKinds == {"plain", "subscribes", "unsubscribesNext"}

Subscription(e, kind) == [entity |-> e, kind |-> kind]
Delivery(h, event) == [handle |-> h, event |-> event]
ChangedEvent == [kind |-> "changed"]

\* subscribe: a new subscription, set at the end of the entity's map.
subscribe(subs, obs, e, kind) ==
    [subs |-> Append(subs, Subscription(e, kind)),
     obs |-> [obs EXCEPT ![e] = Append(@, Len(subs) + 1)]]

\* The mutant of unsubscribe: the entity's whole map is cleared.
unsubscribeClears(subs, obs, h) ==
    IF h \in DOMAIN subs THEN [obs EXCEPT ![subs[h].entity] = <<>>] ELSE obs

\* subscription.unsubscribe(): observers.delete(subscription)
unsubscribe(subs, obs, h) ==
    IF h \in DOMAIN subs
    THEN [obs EXCEPT ![subs[h].entity] = SelectSeq(@, LAMBDA x : x # h)]
    ELSE obs

\* What the handler of subscription h does when it is invoked.
handler(h, st) ==
    CASE st.subs[h].kind = "subscribes" ->
            LET r == subscribe(st.subs, st.obs, st.subs[h].entity, "plain")
            IN  [st EXCEPT !.subs = r.subs, !.obs = r.obs]
      [] st.subs[h].kind = "unsubscribesNext" ->
            [st EXCEPT !.obs = unsubscribe(st.subs, st.obs, h + 1)]
      [] OTHER -> st

\* The entries a dispatch that has reached handle cur still has to visit.
EntriesAfter(entries, cur) == {entries[i] : i \in {j \in DOMAIN entries : entries[j] > cur}}

\* The entries the for-of loop over this._observers.values() has still to
\* visit: those of the map as it is now (handles grow with insertion, so the
\* entries after the current one are those with a larger handle).
remaining(st, e, cur) == EntriesAfter(st.obs[e], cur)

RECURSIVE raiseFrom(_, _, _, _)
\* The loop of _raiseOnCategoryChanged, _raiseOnPropertyChanged and
\* _raiseOnChanged, after the entry with handle cur; st is
\* [subs, obs, deliveries].
raiseFrom(e, cur, event, st) ==
    IF remaining(st, e, cur) = {} THEN st
    ELSE LET h == CHOOSE x \in remaining(st, e, cur) :
                        \A y \in remaining(st, e, cur) : x <= y
         IN  raiseFrom(e, h, event,
                handler(h, [st EXCEPT !.deliveries = Append(@, Delivery(h, event))]))

\* The mutant of raise: every observer is called twice.
raiseTwice(e, event, st) == raiseFrom(e, 0, event, raiseFrom(e, 0, event, st))

\* One _raiseOn... call.
raise(e, event, st) == raiseFrom(e, 0, event, st)

RECURSIVE raiseAll(_, _, _)
\* The _raiseOn... calls of one method, in the order it makes them.
raiseAll(e, events, st) ==
    IF events = <<>> THEN st
    ELSE raiseAll(e, Tail(events), raise(e, Head(events), st))

(***************************************************************************)
(* The initial state.  O is as its constructor leaves it, with an optional *)
(* owner and an optional first category.  S, the object copied from, is    *)
(* one of a few objects built beforehand by the same methods: set while    *)
(* its metadata accepts the value, addCategory in the order shown.         *)
(***************************************************************************)
Source(g, cats, props) == [owner |-> g, categories |-> cats, properties |-> props]

Sources ==
    { Source(NoOwner, <<>>, <<>>),
      Source(NoOwner, <<"A">>, << <<"P1", 1>> >>),
      Source("G1", <<"C", "A">>, << <<"P1", 2>>, <<"P2", 1>> >>),
      Source(NoOwner, <<"C">>, << <<"P2", 2>>, <<"P1", 1>> >>),
      Source("G2", <<"B">>, << <<"P2", 2>> >>),
      Source("G1", <<>>, << <<"P1", 1>>, <<"P2", 1>> >>),
      Source("G2", <<"A", "C">>, <<>>) }

SchemaCall(op, sc, kind, found) ==
    [op |-> op, schema |-> sc, kind |-> kind, found |-> found]

\* No schema has a child, a category or a property yet.
InitSchemas ==
    /\ schemas = [sc \in Schemas |-> <<>>]
    /\ categoryDefs = {}
    /\ propertyDefs = {}
    /\ lastSchema = SchemaCall("new", None, None, None)

\* Nothing has subscribed yet.
InitObservers ==
    /\ subscriptions = <<>>
    /\ observers = [e \in Entities |-> <<>>]
    /\ deliveries = <<>>

InitObjects ==
    /\ \E g \in Owners, src \in Sources :
          owner = [o \in Objects |-> IF o \in Receivers THEN g ELSE src.owner]
          /\ \E cats \in {<<>>} \cup {<<c>> : c \in Categories} :
                categories = [o \in Objects |->
                    IF o \in Receivers THEN cats ELSE src.categories]
          /\ properties = [o \in Objects |->
                IF o \in Receivers THEN <<>> ELSE src.properties]
    /\ last = Call("new", None, None, Undef, None, None, None, FALSE, Undef, <<>>)

Init == InitObjects /\ InitSchemas /\ InitObservers

\* The events a method raised go to the observers of the object.
Dispatch(e, events) ==
    LET d == raiseAll(e, events,
                [subs |-> subscriptions, obs |-> observers, deliveries |-> <<>>])
    IN  /\ Len(d.subs) <= MaxSubs
        /\ subscriptions' = d.subs
        /\ observers' = d.obs
        /\ deliveries' = d.deliveries

(***************************************************************************)
(* One action per method of GraphObject.                                   *)
(***************************************************************************)
Get(o, P) ==
    /\ last' = Call("get", o, P, Undef, None, None, None, FALSE,
                    get(properties[o], categories[o], owner[o], P), <<>>)
    /\ Dispatch(o, <<>>)
    /\ UNCHANGED <<owner, categories, properties, schemaVars>>

Set(o, P, v) ==
    LET r == set(properties[o], owner[o], P, v)
    IN  /\ properties' = [properties EXCEPT ![o] = r.props]
        /\ last' = [Call("set", o, P, v, None, None, None, FALSE, Undef, r.events)
                        EXCEPT !.hadOwn = MapHas(properties[o], P),
                               !.prior = get(properties[o], categories[o], owner[o], P)]
        /\ Dispatch(o, r.events)
        /\ UNCHANGED <<owner, categories, schemaVars>>

Delete(o, P) ==
    LET r == delete(properties[o], owner[o], P)
        follows == last.op = "set" /\ last.obj = o /\ last.property = P
                     /\ last.value # Undef
    IN  /\ properties' = [properties EXCEPT ![o] = r.props]
        /\ last' = [Call("delete", o, P, Undef, None, None, None, r.ret, Undef, r.events)
                        EXCEPT !.after = IF follows THEN "set" ELSE None,
                               !.hadOwn = follows /\ last.hadOwn,
                               !.prior = IF follows THEN last.prior ELSE Undef]
        /\ Dispatch(o, r.events)
        /\ UNCHANGED <<owner, categories, schemaVars>>

AddCategory(o, c) ==
    LET r == addCategory(categories[o], c)
    IN  /\ Len(r.cats) <= MaxCats
        /\ categories' = [categories EXCEPT ![o] = r.cats]
        /\ last' = Call("addCategory", o, None, Undef, c, None, None, FALSE, Undef, r.events)
        /\ Dispatch(o, r.events)
        /\ UNCHANGED <<owner, properties, schemaVars>>

DeleteCategory(o, c) ==
    LET r == deleteCategory(categories[o], c)
    IN  /\ categories' = [categories EXCEPT ![o] = r.cats]
        /\ last' = [Call("deleteCategory", o, None, Undef, c, None, None, r.ret, Undef,
                         r.events)
                        EXCEPT !.returns = IF r.ret THEN "true" ELSE "false"]
        /\ Dispatch(o, r.events)
        /\ UNCHANGED <<owner, properties, schemaVars>>

DeleteCategoryById(o, id) ==
    LET r == deleteCategoryById(categories[o], owner[o], id)
    IN  /\ categories' = [categories EXCEPT ![o] = r.cats]
        /\ last' = [Call("deleteCategory", o, None, Undef, None, None, None, FALSE,
                         Undef, r.events)
                        EXCEPT !.id = id, !.returns = r.returns]
        /\ Dispatch(o, r.events)
        /\ UNCHANGED <<owner, properties, schemaVars>>

\* The sets of categories and category ids hasCategoryInSet is called with.
CategorySets == {m \in SUBSET (Categories \cup CategoryIds) : Cardinality(m) <= MaxMembers}

HasCategoryInSet(o, members, match) ==
    /\ last' = [Call("hasCategoryInSet", o, None, Undef, None, None, None,
                     hasCategoryInSet(categories[o], owner[o], members, match),
                     Undef, <<>>)
                    EXCEPT !.catSet = members, !.mode = match]
    /\ Dispatch(o, <<>>)
    /\ UNCHANGED <<owner, categories, properties, schemaVars>>

CopyCategories(o, other) ==
    LET r == copyCategories(categories[o], categories[other], owner[o])
    IN  /\ Len(r.cats) <= MaxCats
        /\ categories' = [categories EXCEPT ![o] = r.cats]
        /\ last' = [Call("copyCategories", o, None, Undef, None, other, None, r.ret,
                         Undef, r.events)
                        EXCEPT !.trace = r.trace,
                               !.after = IF last.op = "copyCategories" /\ last.obj = o
                                            /\ last.other = other /\ last.ret
                                         THEN "copyCategories" ELSE None]
        /\ Dispatch(o, r.events)
        /\ UNCHANGED <<owner, properties, schemaVars>>

CopyProperties(o, other) ==
    LET r == copyProperties(properties[o], owner[o], properties[other], owner[other])
    IN  /\ properties' = [properties EXCEPT ![o] = r.props]
        /\ last' = [Call("copyProperties", o, None, Undef, None, other, None, r.ret,
                         Undef, r.events)
                        EXCEPT !.after = IF last.op = "copyProperties" /\ last.obj = o
                                            /\ last.other = other /\ last.ret
                                         THEN "copyProperties" ELSE None]
        /\ Dispatch(o, r.events)
        /\ UNCHANGED <<owner, categories, schemaVars>>

MergeFrom(o, other) ==
    LET rp == copyProperties(properties[o], owner[o], properties[other], owner[other])
        rc == copyCategories(categories[o], categories[other], owner[o])
    IN  /\ Len(rc.cats) <= MaxCats
        /\ properties' = [properties EXCEPT ![o] = rp.props]
        /\ categories' = [categories EXCEPT ![o] = rc.cats]
        /\ last' = Call("_mergeFrom", o, None, Undef, None, other, None,
                        rp.ret \/ rc.ret, Undef, rp.events \o rc.events)
        /\ Dispatch(o, rp.events \o rc.events)
        /\ UNCHANGED <<owner, schemaVars>>

SetOwner(o, g) ==
    /\ owner' = [owner EXCEPT ![o] = setOwner(owner[o], g)]
    /\ last' = Call("_setOwner", o, None, Undef, None, None, g, FALSE, Undef, <<>>)
    /\ Dispatch(o, <<>>)
    /\ UNCHANGED <<categories, properties, schemaVars>>

Next ==
    \/ \E o \in Receivers, P \in Properties : Get(o, P)
    \/ \E o \in Receivers, P \in Properties, v \in Values \cup {Undef} : Set(o, P, v)
    \/ \E o \in Receivers, P \in Properties : Delete(o, P)
    \/ \E o \in Receivers, c \in Categories : AddCategory(o, c)
    \/ \E o \in Receivers, c \in Categories : DeleteCategory(o, c)
    \/ \E o \in Receivers, other \in Objects : CopyCategories(o, other)
    \/ \E o \in Receivers, other \in Objects : CopyProperties(o, other)
    \/ \E o \in Receivers, other \in Objects : MergeFrom(o, other)
    \/ \E o \in Receivers, g \in Graphs : SetOwner(o, g)

Spec == Init /\ [][Next]_vars

\* GraphObject.subscribe and GraphSchema.subscribe
Subscribe(e, kind) ==
    LET r == subscribe(subscriptions, observers, e, kind)
    IN  /\ Len(subscriptions) < MaxSubs
        /\ subscriptions' = r.subs
        /\ observers' = r.obs
        /\ deliveries' = <<>>
        /\ last' = [Call("subscribe", e, None, Undef, None, None, None, FALSE, Undef, <<>>)
                        EXCEPT !.handle = Len(r.subs)]
        /\ UNCHANGED <<owner, categories, properties, schemaVars>>

\* subscription.unsubscribe(), of any subscription made so far
Unsubscribe(h) ==
    /\ h \in DOMAIN subscriptions
    /\ observers' = unsubscribe(subscriptions, observers, h)
    /\ deliveries' = <<>>
    /\ last' = [Call("unsubscribe", subscriptions[h].entity, None, Undef, None, None,
                     None, FALSE, Undef, <<>>)
                    EXCEPT !.handle = h]
    /\ UNCHANGED <<owner, categories, properties, subscriptions, schemaVars>>

\* GraphSchema._raiseOnChanged, called when the schema was changed
RaiseOnChanged(sc) ==
    /\ last' = Call("_raiseOnChanged", sc, None, Undef, None, None, None, FALSE,
                    Undef, <<ChangedEvent>>)
    /\ Dispatch(sc, <<ChangedEvent>>)
    /\ UNCHANGED <<owner, categories, properties, schemaVars>>

\* The object's writing operations with subscribers whose handlers leave
\* the observers alone.
NextEvents ==
    \/ \E o \in Receivers, P \in Properties, v \in Values \cup {Undef} : Set(o, P, v)
    \/ \E o \in Receivers, P \in Properties : Delete(o, P)
    \/ \E o \in Receivers, c \in Categories : AddCategory(o, c)
    \/ \E o \in Receivers, c \in Categories : DeleteCategory(o, c)
    \/ \E o \in Receivers, id \in CategoryIds : DeleteCategoryById(o, id)
    \/ \E o \in Receivers, other \in Objects : CopyProperties(o, other)
    \/ \E o \in Receivers : Subscribe(o, "plain")
    \/ \E h \in 1..MaxSubs : Unsubscribe(h)

\* The source object of the copies holds both properties and two categories.
InitEvents ==
    /\ Init
    /\ Len(properties["S"]) = 2
    /\ Len(categories["S"]) = 2

SpecEvents == InitEvents /\ [][NextEvents]_vars

\* One object and one schema with subscribers of every kind: handlers that
\* subscribe and unsubscribe while an event is delivered.
NextDispatch ==
    \/ \E e \in {"O", "R"}, kind \in HandlerKinds : Subscribe(e, kind)
    \/ \E h \in 1..MaxSubs : Unsubscribe(h)
    \/ RaiseOnChanged("R")
    \/ AddCategory("O", "A")
    \/ DeleteCategory("O", "A")
    \/ \E v \in Values : Set("O", "P1", v)
    \/ Delete("O", "P1")

\* The other object plays no part.
InitDispatch ==
    /\ Init
    /\ properties["S"] = <<>>
    /\ categories["S"] = <<>>

SpecDispatch == InitDispatch /\ [][NextDispatch]_vars

(***************************************************************************)
(* The loops over category chains, one iteration at a time: the for loop   *)
(* and while loop of _find (for get and has) and the loops of              *)
(* hasCategoryInSet.  last.walk holds the loop variables.                  *)
(***************************************************************************)
\* A category was looked at: in which loop, for which element of the outer
\* loop, and which category.
Visit(phase, chain, c) == [phase |-> phase, chain |-> chain, category |-> c]

\* The loop variables: the phase ("find", "expand" or "test"), the position
\* of the outer loop in the object's categories (index) or the member of
\* the given set it is at, the category the while loop is at (cursor), the
\* members the expansion has still to take, the set built by it, the set
\* the object's categories are tested against, the categories looked at so
\* far and the category found.
Walk(running, phase, index, member, cursor, pending, built, against, visits, found) ==
    [running |-> running, phase |-> phase, index |-> index, member |-> member,
     cursor |-> cursor, pending |-> pending, built |-> built,
     against |-> against, visits |-> visits, found |-> found]

\* The mutant of nextInChain: the loop does not move on.
nextInChainStays(c) == c

\* category = category.basedOn
nextInChain(c) == basedOn[c]

\* get, has and _find: up to the call of _find, which starts its for loop.
WalkFind(o, P, op) ==
    LET noFind == \/ op = "get" /\ MapGet(properties[o], P) # Undef
                  \/ op = "has" /\ MapHas(properties[o], P)
                  \/ owner[o] = NoOwner
    IN  /\ ~last.walk.running
        /\ last' = [Call(op, o, P, Undef, None, None, None, FALSE, Undef, <<>>)
                        EXCEPT !.walk = Walk(~noFind, "find", 0, None, NoCategory,
                                             {}, {}, {}, <<>>, NoCategory)]
        /\ UNCHANGED <<owner, categories, properties, schemaVars, observerVars>>

\* hasCategoryInSet: up to its first loop, the expansion for "inherited" or
\* else the loop over the object's categories.
WalkHasCategoryInSet(o, members, match) ==
    /\ ~last.walk.running
    /\ last' = [Call("hasCategoryInSet", o, None, Undef, None, None, None, FALSE,
                     Undef, <<>>)
                    EXCEPT !.catSet = members, !.mode = match,
                           !.walk = Walk(TRUE,
                                         IF match = "inherited" THEN "expand" ELSE "test",
                                         0, None, NoCategory, members, {}, members,
                                         <<>>, NoCategory)]
    /\ UNCHANGED <<owner, categories, properties, schemaVars, observerVars>>

\* One iteration of the while loop of _find, or the for loop's move to the
\* object's next category, or the return.
stepFind(w, cats, g, P) ==
    IF w.cursor # NoCategory
    THEN IF metadataHasOwn(w.cursor, g, P)
         THEN [w EXCEPT !.visits = Append(@, Visit("find", w.index, w.cursor)),
                        !.found = w.cursor, !.running = FALSE]
         ELSE [w EXCEPT !.visits = Append(@, Visit("find", w.index, w.cursor)),
                        !.cursor = nextInChain(w.cursor)]
    ELSE IF w.index < Len(cats)
    THEN [w EXCEPT !.index = w.index + 1, !.cursor = cats[w.index + 1]]
    ELSE [w EXCEPT !.running = FALSE]

\* One iteration of the while loop of the expansion with the member m the
\* for loop takes next, or the end of the expansion.
stepExpand(w, g, m) ==
    IF w.cursor # NoCategory
    THEN [w EXCEPT !.visits = Append(@, Visit("expand", w.member, w.cursor)),
                   !.built = @ \cup {w.cursor},
                   !.cursor = nextInChain(w.cursor)]
    ELSE IF w.pending # {}
    THEN [w EXCEPT !.pending = @ \ {m}, !.member = m,
                   !.cursor = IF m \in CategoryIds THEN schemaFindCategory(g, m)
                              ELSE m]
    ELSE [w EXCEPT !.phase = "test", !.member = None,
                   !.against = IF w.built # {} THEN w.built ELSE @]

\* One iteration of the while loop of the last loop of hasCategoryInSet, or
\* the for loop's move to the object's next category, or the return.
stepTest(w, cats) ==
    IF w.cursor # NoCategory
    THEN IF w.cursor \in w.against \/ CategoryId[w.cursor] \in w.against
         THEN [w EXCEPT !.visits = Append(@, Visit("test", w.index, w.cursor)),
                        !.found = w.cursor, !.running = FALSE]
         ELSE [w EXCEPT !.visits = Append(@, Visit("test", w.index, w.cursor)),
                        !.cursor = nextInChain(w.cursor)]
    ELSE IF w.index < Len(cats)
    THEN [w EXCEPT !.index = w.index + 1, !.cursor = cats[w.index + 1]]
    ELSE [w EXCEPT !.running = FALSE]

\* The next step of the call under way.  The order in which the expansion
\* takes the members of the given set is the caller's, so any.
WalkStep(o) ==
    /\ last.walk.running
    /\ last.obj = o
    /\ \E m \in (IF last.walk.phase = "expand" /\ last.walk.cursor = NoCategory
                      /\ last.walk.pending # {}
                   THEN last.walk.pending ELSE {None}) :
          LET w == CASE last.walk.phase = "find" ->
                          stepFind(last.walk, categories[o], owner[o], last.property)
                     [] last.walk.phase = "expand" -> stepExpand(last.walk, owner[o], m)
                     [] OTHER -> stepTest(last.walk, categories[o])
          IN  last' = [last EXCEPT !.walk = w, !.ret = w.found # NoCategory]
    /\ UNCHANGED <<owner, categories, properties, schemaVars, observerVars>>

\* The sets hasCategoryInSet is stepped through with.
WalkSets == {m \in CategorySets : m \subseteq {"A", "C", "b", "z"}}

\* An object is given categories, an owner and a value between the calls
\* that are stepped through; a call runs to its end before the next.
NextWalk ==
    \/ \E o \in Receivers, c \in Categories : ~last.walk.running /\ AddCategory(o, c)
    \/ \E o \in Receivers, c \in Categories : ~last.walk.running /\ DeleteCategory(o, c)
    \/ \E o \in Receivers, g \in Graphs : ~last.walk.running /\ SetOwner(o, g)
    \/ \E o \in Receivers : ~last.walk.running /\ Set(o, "P1", 1)
    \/ \E o \in Receivers, P \in Properties, op \in {"get", "has", "_find"} :
          WalkFind(o, P, op)
    \/ \E o \in Receivers, members \in WalkSets, match \in {"exact", "inherited"} :
          WalkHasCategoryInSet(o, members, match)
    \/ \E o \in Receivers : WalkStep(o)

\* A call that was begun is carried on: the program is sequential.
SpecWalk ==
    /\ InitDispatch
    /\ [][NextWalk]_vars
    /\ WF_vars(\E o \in Receivers : WalkStep(o))

\* The category operations of an object, with categories named by id too.
NextCategories ==
    \/ \E o \in Receivers, c \in Categories : AddCategory(o, c)
    \/ \E o \in Receivers, c \in Categories : DeleteCategory(o, c)
    \/ \E o \in Receivers, id \in CategoryIds : DeleteCategoryById(o, id)
    \/ \E o \in Receivers, members \in CategorySets, match \in {"exact", "inherited"} :
          HasCategoryInSet(o, members, match)
    \/ \E o \in Receivers, other \in Objects : CopyCategories(o, other)
    \/ \E o \in Receivers, g \in Graphs : SetOwner(o, g)

SpecCategories == Init /\ [][NextCategories]_vars

(***************************************************************************)
(* One action per method of GraphSchema.                                   *)
(***************************************************************************)
\* schemas.add(child): a schema is added once, as a child of one schema, and
\* never above itself.
AddSchema(sc, child) ==
    /\ child # sc
    /\ ~HasParent(child)
    /\ sc \notin Descendants(child)
    /\ schemas' = [schemas EXCEPT ![sc] = Append(@, child)]
    /\ lastSchema' = SchemaCall("addSchema", sc, None, child)
    /\ UNCHANGED <<categoryDefs, propertyDefs, objectVars, observerVars>>

\* categories.getOrCreate(id) on a schema that does not hold the id yet.
DefineCategory(sc) ==
    /\ sc \notin categoryDefs
    /\ Cardinality(categoryDefs) + Cardinality(propertyDefs) < MaxDefs
    /\ categoryDefs' = categoryDefs \cup {sc}
    /\ lastSchema' = SchemaCall("defineCategory", sc, "category", sc)
    /\ UNCHANGED <<schemas, propertyDefs, objectVars, observerVars>>

\* properties.getOrCreate(id) on a schema that does not hold the id yet.
DefineProperty(sc) ==
    /\ sc \notin propertyDefs
    /\ Cardinality(categoryDefs) + Cardinality(propertyDefs) < MaxDefs
    /\ propertyDefs' = propertyDefs \cup {sc}
    /\ lastSchema' = SchemaCall("defineProperty", sc, "property", sc)
    /\ UNCHANGED <<schemas, categoryDefs, objectVars, observerVars>>

FindCategory(sc) ==
    /\ lastSchema' = SchemaCall("findCategory", sc, "category", findCategory(sc))
    /\ UNCHANGED <<schemas, categoryDefs, propertyDefs, objectVars, observerVars>>

FindProperty(sc) ==
    /\ lastSchema' = SchemaCall("findProperty", sc, "property", findProperty(sc))
    /\ UNCHANGED <<schemas, categoryDefs, propertyDefs, objectVars, observerVars>>

NextSchema ==
    \/ \E sc \in Schemas, child \in Schemas : AddSchema(sc, child)
    \/ \E sc \in Schemas : DefineCategory(sc)
    \/ \E sc \in Schemas : DefineProperty(sc)
    \/ \E sc \in Schemas : FindCategory(sc)
    \/ \E sc \in Schemas : FindProperty(sc)

\* The schema tree alone, beside one object that no call touches.
InitSchemaOnly ==
    /\ owner = [o \in Objects |-> NoOwner]
    /\ categories = [o \in Objects |-> <<>>]
    /\ properties = [o \in Objects |-> <<>>]
    /\ last = Call("new", None, None, Undef, None, None, None, FALSE, Undef, <<>>)
    /\ InitSchemas
    /\ InitObservers

SpecSchema == InitSchemaOnly /\ [][NextSchema]_vars

TypeOK ==
    /\ owner \in [Objects -> Owners]
    /\ \A o \in Objects : Len(categories[o]) <= MaxCats

(***************************************************************************)
(* The resolution order of get, stated from the categories' chains rather  *)
(* than from the loops of _find.                                           *)
(***************************************************************************)
RECURSIVE Chain(_)
\* A category followed by its ancestors, nearest first.
Chain(c) == IF c = NoCategory THEN <<>> ELSE <<c>> \o Chain(basedOn[c])

RECURSIVE SearchOrder(_)
\* The categories of an object in the order get is to ask them: each
\* category's whole chain before the next category.
SearchOrder(cats) ==
    IF cats = <<>> THEN <<>> ELSE Chain(Head(cats)) \o SearchOrder(Tail(cats))

\* The positions of SearchOrder(cats) whose metadata for g owns P.
OwningPositions(cats, g, P) ==
    {k \in DOMAIN SearchOrder(cats) : CategoryMetadata[SearchOrder(cats)[k]][g][P] # Undef}

FirstOwner(cats, g, P) ==
    SearchOrder(cats)[CHOOSE k \in OwningPositions(cats, g, P) :
                        \A j \in OwningPositions(cats, g, P) : k <= j]

\* The metadata the claims call "resolved for P": the owner's, or the
\* ownerless default one.
ResolvedMetadata(o, P) ==
    IF owner[o] \in Graphs THEN PropertyMetadata[P][owner[o]]
    ELSE PropertyMetadata[P][NoOwner]

\* C1: get(P) returns the stored value when there is one; otherwise, for an
\* owned object, the value held by the metadata of the first category owning
\* P, the categories asked in iteration order and each category's whole
\* basedOn chain before the next category; otherwise, for an owned object,
\* P's default value for the owner.
C1_GetResolutionOrder ==
    last.op = "get" =>
        LET o == last.obj
            P == last.property
            g == owner[o]
        IN  /\ MapHas(properties[o], P) =>
                last.result = MapGet(properties[o], P)
            /\ (~MapHas(properties[o], P) /\ g \in Graphs
                  /\ OwningPositions(categories[o], g, P) # {}) =>
                last.result = CategoryMetadata[FirstOwner(categories[o], g, P)][g][P]
            /\ (~MapHas(properties[o], P) /\ g \in Graphs
                  /\ OwningPositions(categories[o], g, P) = {}) =>
                last.result = PropertyMetadata[P][g].defaultValue

\* The scenario of C1: A basedOn B, B's metadata for G1 owns P1 with value 7,
\* the object has A first (and C, whose metadata owns P1 with 8, after it) and
\* stores nothing for P1: get(P1) gave 7.
C1_Witness ==
    /\ last.op = "get" /\ last.obj = "O" /\ last.property = "P1"
    /\ owner["O"] = "G1"
    /\ categories["O"] = <<"A", "C">>
    /\ ~MapHas(properties["O"], "P1")
    /\ last.result = 7

\* C2 as claimed: with no stored value and no category metadata owning P,
\* get(P) returns the owner's default for P when the object has an owner and
\* the default of P's ownerless default metadata when it has none.
C2_GetFallsBackToDefault ==
    (/\ last.op = "get"
     /\ ~MapHas(properties[last.obj], last.property)
     /\ (owner[last.obj] \in Graphs =>
            OwningPositions(categories[last.obj], owner[last.obj], last.property) = {}))
    => last.result = ResolvedMetadata(last.obj, last.property).defaultValue

\* C3 as claimed: a set of a value the validator accepts on a property with no
\* stored value makes get return it; and when the metadata is immutable, every
\* set(P, w) with w different from the stored value v changes nothing and
\* raises no event.
C3_Original_SetThenGet ==
    [][last'.op = "set" =>
        LET o == last'.obj
            P == last'.property
            w == last'.value
            md == ResolvedMetadata(o, P)
        IN  /\ (w # Undef /\ ~MapHas(properties[o], P) /\ w \notin md.rejects) =>
                get(properties'[o], categories'[o], owner'[o], P) = w
            /\ (MapHas(properties[o], P) /\ md.isImmutable
                  /\ w # MapGet(properties[o], P)) =>
                /\ properties' = properties
                /\ get(properties'[o], categories'[o], owner'[o], P)
                     = MapGet(properties[o], P)
                /\ last'.events = <<>>]_vars

\* C3, amended: as claimed, for every w that is not the unset sentinel
\* (set(P, undefined) is a delete).
C3_SetThenGet ==
    [][last'.op = "set" =>
        LET o == last'.obj
            P == last'.property
            w == last'.value
            md == ResolvedMetadata(o, P)
        IN  /\ (w # Undef /\ ~MapHas(properties[o], P) /\ w \notin md.rejects) =>
                get(properties'[o], categories'[o], owner'[o], P) = w
            /\ (MapHas(properties[o], P) /\ md.isImmutable /\ w # Undef
                  /\ w # MapGet(properties[o], P)) =>
                /\ properties' = properties
                /\ get(properties'[o], categories'[o], owner'[o], P)
                     = MapGet(properties[o], P)
                /\ last'.events = <<>>]_vars

\* A set of another value on an immutable property that stores one was
\* refused.
C3_Witness ==
    /\ last.op = "set" /\ last.value \in Values
    /\ MapHas(properties[last.obj], last.property)
    /\ MapGet(properties[last.obj], last.property) # last.value
    /\ ResolvedMetadata(last.obj, last.property).isImmutable
    /\ last.events = <<>>

\* C4: a set whose resolved metadata has a validator rejecting the value
\* leaves the property map, the category set and the owner as they were and
\* raises no event.
C4_RejectedSetChangesNothing ==
    [][(/\ last'.op = "set"
        /\ last'.value \in ResolvedMetadata(last'.obj, last'.property).rejects)
       => /\ properties' = properties
          /\ categories' = categories
          /\ owner' = owner
          /\ last'.events = <<>>]_vars

\* The validator alone refused a set: nothing is stored for the property and
\* the value is one the validator rejects.
C4_Witness ==
    /\ last.op = "set"
    /\ ~MapHas(properties[last.obj], last.property)
    /\ last.value \in ResolvedMetadata(last.obj, last.property).rejects

\* C5: delete(P) returns false, changes nothing and raises no event when the
\* resolved metadata marks P non-removable, and when nothing is stored for P.
C5_RefusedDelete ==
    [][(/\ last'.op = "delete"
        /\ \/ ~ResolvedMetadata(last'.obj, last'.property).isRemovable
           \/ ~MapHas(properties[last'.obj], last'.property))
       => /\ last'.ret = FALSE
          /\ properties' = properties
          /\ categories' = categories
          /\ owner' = owner
          /\ last'.events = <<>>]_vars

\* A delete of a stored, non-removable property was refused.
C5_Witness ==
    /\ last.op = "delete" /\ last.ret = FALSE
    /\ MapHas(properties[last.obj], last.property)
    /\ ~ResolvedMetadata(last.obj, last.property).isRemovable

\* No entry of a property map holds the unset sentinel.
NoUndefinedStored ==
    \A o \in Objects : \A i \in DOMAIN properties[o] : properties[o][i][2] # Undef

\* What delete(P) is to do, from the words of the spec: remove the entry and
\* raise one event when a value is stored and P is removable, nothing else.
DeleteRemoves(o, P) ==
    MapHas(properties[o], P) /\ ResolvedMetadata(o, P).isRemovable

\* C6: no property map ever holds the unset sentinel, and set(P, undefined)
\* leaves the state and raises the events delete(P) does.
C6_UnsetIsDelete ==
    /\ []NoUndefinedStored
    /\ [][(last'.op = "set" /\ last'.value = Undef) =>
            LET o == last'.obj
                P == last'.property
            IN  /\ categories' = categories
                /\ owner' = owner
                /\ \A q \in Objects \ {o} : properties'[q] = properties[q]
                /\ IF DeleteRemoves(o, P)
                   THEN /\ properties'[o] = SelectSeq(properties[o], LAMBDA e : e[1] # P)
                        /\ last'.events = <<PropertyEvent(P)>>
                   ELSE /\ properties'[o] = properties[o]
                        /\ last'.events = <<>>]_vars

\* set(P, undefined) removed a stored value.
C6_Witness ==
    /\ last.op = "set" /\ last.value = Undef
    /\ last.events # <<>>
    /\ ~MapHas(properties[last.obj], last.property)

\* C7: once an object has an owner, no call changes it.
C7_OwnerWriteOnce ==
    [][\A o \in Objects : owner[o] # NoOwner => owner'[o] = owner[o]]_vars

\* _setOwner was called with another graph on an owned object.
C7_Witness ==
    /\ last.op = "_setOwner"
    /\ owner[last.obj] \in Graphs
    /\ owner[last.obj] # last.graph

\* The (P, v) pair of a source that copyProperties is to skip on an owned
\* destination o: the owner's metadata for P is not sharable, or is immutable
\* while o stores a value for P, or has a validator rejecting v.
Skipped(o, P, v) ==
    LET md == PropertyMetadata[P][owner[o]]
    IN  \/ ~md.isSharable
        \/ md.isImmutable /\ MapHas(properties[o], P)
        \/ v \in md.rejects

EventsFor(events, P) ==
    {i \in DOMAIN events : events[i].kind = "property" /\ events[i].property = P}

C9_CopyReturnsChanged ==
    [][LET o == last'.obj
       IN  /\ last'.op = "copyCategories" =>
                (last'.ret <=> categories'[o] # categories[o])
           /\ last'.op = "copyProperties" =>
                (last'.ret <=> properties'[o] # properties[o])
           /\ last'.op = "_mergeFrom" =>
                (last'.ret <=> (categories'[o] # categories[o]
                                  \/ properties'[o] # properties[o]))]_vars

\* copyProperties looked at entries of a non-empty source and changed nothing.
C9_Witness ==
    /\ last.op = "copyProperties" /\ last.other = "S"
    /\ properties["S"] # <<>>
    /\ properties["O"] # properties["S"]
    /\ last.ret = FALSE

(***************************************************************************)
(* The lookup order of a schema tree, stated from the shape of the tree    *)
(* rather than from the generator allSchemas.                              *)
(***************************************************************************)
Subtree(sc) == {sc} \cup Descendants(sc)

\* a comes before b: b is below a, or they lie below two children of one
\* schema and a's child was registered first.
Before(a, b) ==
    /\ a # b
    /\ \/ b \in Descendants(a)
       \/ \E p \in Schemas : \E i, j \in DOMAIN schemas[p] :
            /\ i < j
            /\ a \in Subtree(schemas[p][i])
            /\ b \in Subtree(schemas[p][j])

\* The schema a lookup from sc is to answer with, among those holding the id.
Expected(sc, defs) ==
    IF sc \in defs THEN sc
    ELSE IF Subtree(sc) \cap defs = {} THEN NotFound
    ELSE CHOOSE d \in Subtree(sc) \cap defs :
            \A e \in (Subtree(sc) \cap defs) \ {d} : Before(d, e)

\* C10: findCategory and findProperty answer with the schema's own definition
\* when it has one, otherwise with the first definition among its descendants,
\* depth-first and children in registration order, and with "not found" when
\* no schema of the tree defines the id.
C10_LookupOrder ==
    /\ lastSchema.op = "findCategory" =>
         /\ lastSchema.found = Expected(lastSchema.schema, categoryDefs)
         /\ \A d \in Subtree(lastSchema.schema) \cap categoryDefs :
              d = lastSchema.found \/ Before(lastSchema.found, d)
    /\ lastSchema.op = "findProperty" =>
         /\ lastSchema.found = Expected(lastSchema.schema, propertyDefs)
         /\ \A d \in Subtree(lastSchema.schema) \cap propertyDefs :
              d = lastSchema.found \/ Before(lastSchema.found, d)

\* R has the children S1 and S2 in that order and S1 the child S3; R defines
\* the category itself, and so do S3 and S2: findCategory on R gave R's own.
C10_Witness ==
    /\ lastSchema.op = "findCategory" /\ lastSchema.schema = "R"
    /\ schemas["R"] = <<"S1", "S2">> /\ schemas["S1"] = <<"S3">>
    /\ categoryDefs = {"R", "S2", "S3"}
    /\ lastSchema.found = "R"

\* In the same tree with only S3 and S2 defining the category, findCategory on
\* R gave S3's, the first in depth-first order.
C10_DepthFirst ==
    /\ lastSchema.op = "findCategory" /\ lastSchema.schema = "R"
    /\ schemas["R"] = <<"S1", "S2">> /\ schemas["S1"] = <<"S3">>
    /\ categoryDefs = {"S2", "S3"}
    /\ lastSchema.found = "S3"


(***************************************************************************)
(* C15: the value map is keyed by the property instance, not by its id.    *)
(* A set or delete of a property, and a copyProperties from an object that *)
(* stores no value for Q, never changes whether the object stores a value  *)
(* for any other property Q nor which value, although all properties share *)
(* one id.                                                                 *)
(***************************************************************************)
\* The properties a call writes: the argument of set and delete, the keys
\* of the source of copyProperties.
Written(call) ==
    IF call.op \in {"set", "delete"} THEN {call.property}
    ELSE IF call.op = "copyProperties" THEN MapKeys(properties[call.other])
    ELSE {}

C15_IdentityKeyed ==
    [][\A o \in Receivers, Q \in Properties :
          (/\ last'.obj = o
           /\ last'.op \in {"set", "delete", "copyProperties"}
           /\ Q \notin Written(last')
           /\ \E P \in Written(last') : PropertyId[P] = PropertyId[Q])
          => /\ MapHas(properties'[o], Q) = MapHas(properties[o], Q)
             /\ MapGet(properties'[o], Q) = MapGet(properties[o], Q)]_vars

\* A value was stored for P1 while P2, of the same id, has its own value.
C15_Witness ==
    /\ last.op \in {"set", "copyProperties"}
    /\ last.events # <<>>
    /\ \E P, Q \in Properties :
          /\ P # Q
          /\ PropertyId[P] = PropertyId[Q]
          /\ P \in {last.events[i].property : i \in DOMAIN last.events}
          /\ Q \notin {last.events[i].property : i \in DOMAIN last.events}
          /\ MapHas(properties[last.obj], P)
          /\ MapHas(properties[last.obj], Q)
          /\ MapGet(properties[last.obj], P) # MapGet(properties[last.obj], Q)


(***************************************************************************)
(* C16: the set/delete round trip.  When a property that is removable for  *)
(* the object (owned or not) has no stored value, a set of a value its     *)
(* validator accepts followed directly by a delete of the property makes   *)
(* the delete return true, leaves no stored value, and get gives again     *)
(* what it gave before the set.                                            *)
(***************************************************************************)
C16_SetDeleteRoundTrip ==
    [][\A o \in Receivers, P \in Properties :
          (/\ last.op = "set" /\ last.obj = o /\ last.property = P
           /\ last.value # Undef
           /\ ~last.hadOwn
           /\ resolveMetadata(owner[o], P).isRemovable
           /\ ~(resolveMetadata(owner[o], P).canValidate
                 /\ ~validate(resolveMetadata(owner[o], P), last.value))
           /\ last'.op = "delete" /\ last'.obj = o /\ last'.property = P)
          => /\ MapGet(properties[o], P) = last.value
             /\ last'.ret = TRUE
             /\ ~MapHas(properties'[o], P)
             /\ get(properties'[o], categories'[o], owner'[o], P) = last.prior]_vars

\* A delete directly after a set on an unset property is done, and before
\* the set get gave a value that was not stored.
C16_Witness ==
    /\ last.op = "delete"
    /\ last.after = "set"
    /\ ~last.hadOwn
    /\ last.ret = TRUE
    /\ last.prior # Undef
    /\ get(properties[last.obj], categories[last.obj], owner[last.obj],
           last.property) = last.prior


(***************************************************************************)
(* C19: copyCategories on an owned destination.  For each category of the  *)
(* other object that the destination lacks, the owner's _importMetadata    *)
(* call comes before the category is added and the 'add' event is raised   *)
(* after the add, each once; a category the destination already has        *)
(* triggers no import, no add and no event.                                *)
(***************************************************************************)
\* The positions of a step in a trace.
StepsAt(trace, what, c) == {i \in DOMAIN trace : trace[i] = Step(what, c)}

C19_ImportAddRaise ==
    [][(last'.op = "copyCategories" /\ owner[last'.obj] # NoOwner)
       => \A c \in Categories :
            LET imports == StepsAt(last'.trace, "import", c)
                adds == StepsAt(last'.trace, "add", c)
                raises == StepsAt(last'.trace, "raise", c)
                events == {i \in DOMAIN last'.events :
                              last'.events[i] = CategoryEvent("add", c)}
            IN  IF SetHas(categories[last'.other], c)
                   /\ ~SetHas(categories[last'.obj], c)
                THEN /\ Cardinality(imports) = 1
                     /\ Cardinality(adds) = 1
                     /\ Cardinality(raises) = 1
                     /\ Cardinality(events) = 1
                     /\ \A i \in imports, a \in adds, r \in raises : i < a /\ a < r
                     /\ SetHas(categories'[last'.obj], c)
                ELSE /\ imports = {} /\ adds = {} /\ raises = {}
                     /\ \A i \in DOMAIN last'.events : last'.events[i].category # c
                     /\ SetHas(categories'[last'.obj], c)
                            = SetHas(categories[last'.obj], c)]_vars

\* An owned object copied the categories of an object of another graph: one
\* it lacked was imported, added and announced, one it had was left alone.
C19_Witness ==
    /\ last.op = "copyCategories"
    /\ owner[last.obj] # NoOwner
    /\ owner[last.other] # owner[last.obj]
    /\ \E c, d \in SetOf(categories[last.other]) :
          /\ StepsAt(last.trace, "import", c) # {}
          /\ StepsAt(last.trace, "add", c) # {}
          /\ StepsAt(last.trace, "raise", c) # {}
          /\ StepsAt(last.trace, "add", d) = {}
          /\ SetHas(categories[last.obj], d)


(***************************************************************************)
(* C20: copyProperties enforces the write guards of set.  For every        *)
(* destination, owned or not, and every source whose properties are        *)
(* sharable for the destination, copyProperties leaves the destination in  *)
(* the state, and raises the events, that set of each source pair in turn  *)
(* would.                                                                  *)
(***************************************************************************)
RECURSIVE SetEach(_, _, _, _)
\* set(P, v) for each pair of src from the i-th on; acc is [props, events].
SetEach(src, i, g, acc) ==
    IF i > Len(src) THEN acc
    ELSE LET r == set(acc.props, g, src[i][1], src[i][2])
         IN  SetEach(src, i + 1, g,
                [props |-> r.props, events |-> acc.events \o r.events])

AllSharable(src, g) ==
    \A i \in DOMAIN src : resolveMetadata(g, src[i][1]).isSharable

C20_CopyEnforcesSetGuards ==
    [][(/\ last'.op = "copyProperties"
        /\ AllSharable(properties[last'.other], owner[last'.obj]))
       => LET expected == SetEach(properties[last'.other], 1, owner[last'.obj],
                             [props |-> properties[last'.obj], events |-> <<>>])
          IN  /\ properties'[last'.obj] = expected.props
              /\ last'.events = expected.events]_vars

\* The same for owned destinations only.
C20_OwnedCopyEnforcesSetGuards ==
    [][(/\ last'.op = "copyProperties"
        /\ owner[last'.obj] # NoOwner
        /\ AllSharable(properties[last'.other], owner[last'.obj]))
       => LET expected == SetEach(properties[last'.other], 1, owner[last'.obj],
                             [props |-> properties[last'.obj], events |-> <<>>])
          IN  /\ properties'[last'.obj] = expected.props
              /\ last'.events = expected.events]_vars


(***************************************************************************)
(* C12: the result of deleteCategory.  Called with a category it returns   *)
(* a boolean, true exactly when the category was removed.  Called with an  *)
(* id it returns the removed category or false; when the id cannot be      *)
(* resolved (no owner, or no such category in the schema) the result is    *)
(* false and the object is unchanged.                                      *)
(***************************************************************************)
C12_DeleteCategoryResult ==
    [][last'.op = "deleteCategory"
       => LET o == last'.obj
              removed == SetOf(categories[o]) \ SetOf(categories'[o])
          IN  IF last'.id = None
              THEN /\ last'.returns \in {"true", "false"}
                   /\ (last'.returns = "true") = (removed = {last'.category})
                   /\ removed \subseteq {last'.category}
              ELSE /\ last'.returns \in Categories \cup {"false"}
                   /\ last'.returns \in Categories => removed = {last'.returns}
                   /\ last'.returns = "false" => categories'[o] = categories[o]
                   /\ schemaFindCategory(owner[o], last'.id) = NoCategory
                        => last'.returns = "false"]_vars

(***************************************************************************)
(* C18: hasCategoryInSet with "inherited" only expands the set.  For every *)
(* object and every set of categories and ids, resolvable or not, when     *)
(* "exact" answers true for the set, "inherited" answers true too.         *)
(***************************************************************************)
C18_ExactImpliesInherited ==
    (last.op = "hasCategoryInSet" /\ last.mode = "exact" /\ last.ret)
    => hasCategoryInSet(categories[last.obj], owner[last.obj], last.catSet, "inherited")

\* "inherited" answers true when a category of one of the object's chains is
\* in the chain of a member of the set that is a category.
C18_InheritedSeesAncestors ==
    (/\ last.op = "hasCategoryInSet" /\ last.mode = "inherited"
     /\ \E i \in DOMAIN categories[last.obj] :
           \E m \in last.catSet \cap Categories :
              withBases(categories[last.obj][i]) \cap withBases(m) # {})
    => last.ret


(***************************************************************************)
(* C11: addCategory and deleteCategory raise a category-changed event      *)
(* exactly when the category set changes.  Adding a category already       *)
(* present or deleting an absent one changes nothing and delivers nothing; *)
(* adding an absent category or deleting a present one delivers exactly    *)
(* one event, 'add' or 'delete' with that category, to each subscriber.    *)
(***************************************************************************)
\* The number of times an event was delivered to a subscription.
Delivered(d, h, event) == Cardinality({i \in DOMAIN d : d[i] = Delivery(h, event)})

\* Exactly one delivery of the event to each subscriber, and no other.
OneEach(d, subscribers, event) ==
    /\ \A h \in SetOf(subscribers) : Delivered(d, h, event) = 1
    /\ Len(d) = Len(subscribers)

C11_CategoryEvents ==
    [][last'.op \in {"addCategory", "deleteCategory"}
       => LET o == last'.obj
              c == IF last'.id = None THEN last'.category
                   ELSE schemaFindCategory(owner[o], last'.id)
              adds == last'.op = "addCategory"
              effective == IF adds THEN ~SetHas(categories[o], c)
                           ELSE SetHas(categories[o], c)
          IN  IF effective
              THEN /\ SetOf(categories'[o]) =
                        (IF adds THEN SetOf(categories[o]) \cup {c}
                         ELSE SetOf(categories[o]) \ {c})
                   /\ OneEach(deliveries', observers[o],
                              CategoryEvent(IF adds THEN "add" ELSE "delete", c))
              ELSE /\ categories'[o] = categories[o]
                   /\ deliveries' = <<>>]_vars

\* Two subscribers have each been told of a category that was added or
\* deleted.
C11_Witness ==
    /\ last.op \in {"addCategory", "deleteCategory"}
    /\ Len(observers[last.obj]) = 2
    /\ Len(deliveries) = 2
    /\ deliveries[1].event.kind = "category"
    /\ deliveries[1].handle # deliveries[2].handle


(***************************************************************************)
(* C13: property-changed events correspond one to one with changes of the  *)
(* stored property map.  In every step, each subscriber of the object is   *)
(* told exactly once, with the property's id, of each property whose       *)
(* stored value was set, overwritten by a copy or removed, and nobody is   *)
(* told of a property whose entry stayed as it was (rejected set, set of   *)
(* the stored value, refused delete, skipped copy, any other operation).   *)
(***************************************************************************)
\* The properties whose entry differs between two maps.
ChangedProperties(before, after) ==
    {P \in Properties : MapGet(before, P) # MapGet(after, P)}

C13_PropertyEvents ==
    [][\A o \in Receivers :
          LET changed == ChangedProperties(properties[o], properties'[o])
              told == {i \in DOMAIN deliveries' : deliveries'[i].event.kind = "property"}
          IN  /\ \A P \in changed :
                    /\ last'.op \in {"set", "delete", "copyProperties"}
                    /\ \A h \in SetOf(observers[o]) :
                          Delivered(deliveries', h, PropertyEvent(P)) = 1
              /\ \A i \in told :
                    /\ deliveries'[i].event.property \in changed
                    /\ deliveries'[i].event.id = PropertyId[deliveries'[i].event.property]
                    /\ deliveries'[i].handle \in SetOf(observers[o])
              /\ Cardinality(told) = Cardinality(changed) * Len(observers[o])]_vars

\* A copy overwrote one property and skipped the other, and both
\* subscribers were told of the one.
C13_Witness ==
    /\ last.op = "copyProperties"
    /\ Len(properties[last.other]) = 2
    /\ Len(last.events) = 1
    /\ Len(observers[last.obj]) = 2
    /\ Len(deliveries) = 2
    /\ deliveries[1].event = PropertyEvent(last.events[1].property)
    /\ deliveries[2].event = deliveries[1].event
    /\ deliveries[1].handle # deliveries[2].handle


(***************************************************************************)
(* C14: unsubscribe, of a GraphObject and of a GraphSchema subscription.   *)
(* Once unsubscribe() has returned the subscription's handlers are never   *)
(* invoked again, by a later event or later in the event being delivered;  *)
(* a second unsubscribe() changes nothing; and unsubscribe() removes no    *)
(* other subscription, so that the others are told of the next event.      *)
(***************************************************************************)
\* The subscription was made and is no longer in its entity's map.
Unsubscribed(h) ==
    /\ h \in DOMAIN subscriptions
    /\ ~SetHas(observers[subscriptions[h].entity], h)

\* Every subscriber of the entity has handlers that leave the observers alone.
AllPlain(e) ==
    \A h \in SetOf(observers[e]) : subscriptions[h].kind = "plain"

C14_Unsubscribe ==
    [][/\ \A h \in DOMAIN subscriptions :
             Unsubscribed(h)
             => /\ ~SetHas(observers'[subscriptions[h].entity], h)
                /\ \A i \in DOMAIN deliveries' : deliveries'[i].handle # h
       /\ \A i, j \in DOMAIN deliveries' :
             (/\ i < j
              /\ subscriptions'[deliveries'[i].handle].kind = "unsubscribesNext"
              /\ deliveries'[i].event = deliveries'[j].event)
             => deliveries'[j].handle # deliveries'[i].handle + 1
       /\ last'.op = "unsubscribe"
             => /\ \A e \in Entities :
                      observers'[e] = SelectSeq(observers[e], LAMBDA x : x # last'.handle)
                /\ Unsubscribed(last'.handle) => observers' = observers
       /\ \A e \in Entities :
             (last'.obj = e /\ last'.events # <<>> /\ AllPlain(e))
             => \A h \in SetOf(observers[e]) :
                   Delivered(deliveries', h, last'.events[1]) = 1]_vars

\* An event was delivered to a subscriber of an entity after another
\* subscription of the same entity had been unsubscribed.
C14_Witness ==
    /\ last.events # <<>>
    /\ Len(deliveries) = 1
    /\ \E h \in DOMAIN subscriptions :
          /\ Unsubscribed(h)
          /\ subscriptions[h].entity = last.obj
          /\ h < deliveries[1].handle
          /\ subscriptions[deliveries[1].handle].entity = last.obj

(***************************************************************************)
(* C17: event dispatch is insulated from what handlers do to the observer  *)
(* list.  When a handler subscribes or unsubscribes on the same entity     *)
(* while an event is delivered, the handlers invoked for that event are    *)
(* those registered when its delivery began, each once.                    *)
(***************************************************************************)
C17_DispatchInsulated ==
    [][Len(last'.events) = 1
       => /\ {deliveries'[i].handle : i \in DOMAIN deliveries'}
                = SetOf(observers[last'.obj])
          /\ Len(deliveries') = Len(observers[last'.obj])]_vars


(***************************************************************************)
(* C21: a value that is immutable and not removable stays.  When an owned  *)
(* object stores a value for a property whose metadata for the owner is    *)
(* immutable and not removable, no step of set (of a value or of the unset *)
(* sentinel), delete, copyProperties, _mergeFrom or any other operation    *)
(* changes or removes that value.                                          *)
(***************************************************************************)
\* The value stored for P can be neither overwritten nor removed.
Pinned(o, P) ==
    /\ owner[o] # NoOwner
    /\ getMetadata(P, owner[o]).isImmutable
    /\ ~getMetadata(P, owner[o]).isRemovable
    /\ MapHas(properties[o], P)

C21_PinnedValueStays ==
    [][\A o \in Receivers, P \in Properties :
          Pinned(o, P)
          => /\ MapHas(properties'[o], P)
             /\ MapGet(properties'[o], P) = MapGet(properties[o], P)
             /\ \A i \in DOMAIN last'.events :
                   last'.events[i] # PropertyEvent(P)]_vars

\* set(P, undefined) was called on an object that holds a pinned value for
\* P, and the value is still there.
C21_Witness ==
    /\ last.op = "set"
    /\ last.value = Undef
    /\ last.hadOwn
    /\ Pinned(last.obj, last.property)


(***************************************************************************)
(* C22: copyProperties and copyCategories are idempotent and leave the     *)
(* source alone.  A second call of the same copy directly after a first    *)
(* one, from the same unchanged object, returns false, changes nothing in  *)
(* the destination and raises no event; and no call changes the source's   *)
(* categories, properties or owner.                                        *)
(***************************************************************************)
\* In this state, whatever copy is made, making it again does nothing.
SecondCopyDoesNothing ==
    \A o \in Receivers, other \in Objects :
        LET p1 == copyProperties(properties[o], owner[o], properties[other],
                                 owner[other])
            src == IF other = o THEN p1.props ELSE properties[other]
            p2 == copyProperties(p1.props, owner[o], src, owner[other])
            c1 == copyCategories(categories[o], categories[other], owner[o])
            csrc == IF other = o THEN c1.cats ELSE categories[other]
            c2 == copyCategories(c1.cats, csrc, owner[o])
        IN  /\ p2.ret = FALSE /\ p2.props = p1.props /\ p2.events = <<>>
            /\ c2.ret = FALSE /\ c2.cats = c1.cats /\ c2.events = <<>>

\* A copy that directly follows the same copy does nothing, and a copy
\* leaves the other object as it was.
CopyStep ==
    /\ (last'.op \in {"copyProperties", "copyCategories"} /\ last'.after = last'.op)
          => /\ last'.ret = FALSE
             /\ last'.events = <<>>
             /\ deliveries' = <<>>
             /\ properties' = properties
             /\ categories' = categories
             /\ owner' = owner
    /\ (last'.op \in {"copyProperties", "copyCategories"} /\ last'.other # last'.obj)
          => /\ properties'[last'.other] = properties[last'.other]
             /\ categories'[last'.other] = categories[last'.other]
             /\ owner'[last'.other] = owner[last'.other]

C22_CopyIdempotent == []SecondCopyDoesNothing /\ [][CopyStep]_vars

\* copyProperties was called twice in a row from an object that holds a
\* pair the first call copied and a pair that both calls skipped.
C22_Witness ==
    /\ last.op = "copyProperties"
    /\ last.after = "copyProperties"
    /\ last.other # last.obj
    /\ last.ret = FALSE
    /\ \E i, j \in DOMAIN properties[last.other] :
          /\ MapGet(properties[last.obj], properties[last.other][i][1])
                = properties[last.other][i][2]
          /\ MapGet(properties[last.obj], properties[last.other][j][1])
                # properties[last.other][j][2]


(***************************************************************************)
(* C23: the walks over category chains terminate.  The loops of _find      *)
(* (for get and has) and of hasCategoryInSet, in both modes, come to an    *)
(* end for every object, and look at each category of a chain at most once *)
(* per chain; what they return is what the methods return.                 *)
(***************************************************************************)
\* No category was looked at twice in the same loop for the same chain.
VisitsOnce(w) ==
    \A i, j \in DOMAIN w.visits : w.visits[i] = w.visits[j] => i = j

\* A finished walk found what the method finds.
WalkResult ==
    (~last.walk.running /\ last.walk # NoWalk)
    => IF last.op = "hasCategoryInSet"
       THEN last.ret = hasCategoryInSet(categories[last.obj], owner[last.obj],
                                        last.catSet, last.mode)
       ELSE last.walk.visits # <<>>
            => last.walk.found = find(categories[last.obj], owner[last.obj],
                                      last.property)

WalkInv ==
    /\ last.walk # NoWalk => VisitsOnce(last.walk)
    /\ WalkResult

C23_WalksTerminate ==
    /\ []WalkInv
    /\ (last.walk.running ~> ~last.walk.running)

\* hasCategoryInSet with "inherited" has come to its end for an object
\* with two categories, having walked a chain of two in each of its loops.
C23_Witness ==
    /\ last.op = "hasCategoryInSet"
    /\ last.mode = "inherited"
    /\ last.walk # NoWalk
    /\ ~last.walk.running
    /\ Len(categories[last.obj]) = 2
    /\ \E i, j \in DOMAIN last.walk.visits :
          /\ last.walk.visits[i].phase = "expand"
          /\ last.walk.visits[i].category = "B"
          /\ last.walk.visits[j].phase = "test"
          /\ last.walk.visits[j].category = "B"

=============================================================================
